---- MODULE Spec2Model ----
(***************************************************************************)
(* A model of logs_analyzer.py: the discovery of the latest nginx access  *)
(* log (get_latest_logfile), the line-by-line scan with its error-rate    *)
(* gate (analyze), the ranked report (prepare_report_data) and the        *)
(* orchestration with the "report already exists" short-circuit (main).   *)
(*                                                                         *)
(* Durations are kept in milliseconds (nginx writes $request_time with    *)
(* three decimals), percentages in thousandths of a percent, so that      *)
(* round(x, 3) becomes a rounding to an integer.                          *)
(***************************************************************************)
EXTENDS Integers, Sequences, FiniteSets, TLC

VARIABLES
    logDirExists,     \* does cfg["LOG_DIR"] exist
    logDir,           \* its entries, in the order os.listdir yields them
    cfg,              \* the resolved configuration (REPORT_SIZE, REPORT_DIR)
    reportDirExists,  \* does the directory of the report exist
    files,            \* the files at the report destination: {[path, content]}
    fileLines,        \* the lines of the selected log file read so far (the file is fixed once read)
    fileComplete,     \* has the end of the selected log file been seen
    run,              \* "first" or "again": which invocation of the script
    pc,               \* position of the running invocation
    logfile,          \* main: logfile
    report_path,      \* main: report_path
    pos,              \* analyze: number of lines the for loop has taken from the file
    total_count,      \* analyze: total_count
    total_time,       \* analyze: total_time (ms)
    errors_count,     \* analyze: errors_count
    logs_statistics,  \* analyze: logs_statistics, a dict in insertion order: <<[url, times]>>
    data,             \* the value prepare_report_data returned
    exc,              \* the exception that ended the invocation, "" when none
    exitCode,         \* the exit status of the process, -1 while it runs
    outcome,          \* how the invocation ended, "running" until then
    scans,            \* how many times this invocation opened a log file for reading (ghost)
    writes,           \* how many times this invocation wrote a report (ghost)
    prev              \* the previous invocation's outcome, and the destination as this invocation found it (ghost)

vars == <<logDirExists, logDir, cfg, reportDirExists, files, fileLines, fileComplete,
          run, pc, logfile, report_path, pos, total_count, total_time, errors_count,
          logs_statistics, data, exc, exitCode, outcome, scans, writes, prev>>

----------------------------------------------------------------------------
(* Bounds *)

MaxFiles == 3
MaxDirEntries == 2
MaxLines == 6
MaxReportSize == 1
MaxLimit == 3
MaxUrls == 3
MaxSamples == 2
MaxErrors == 1

----------------------------------------------------------------------------
(* Program constants *)

\* MAX_ERRORS_LIMIT = 0.2, kept as the fraction 1/5
MAX_ERRORS_LIMIT_NUM == 1
MAX_ERRORS_LIMIT_DEN == 5

----------------------------------------------------------------------------
(* File names and dates *)

\* datetime values; valid = FALSE stands for Python's None
NoDate == [valid |-> FALSE, y |-> 0, m |-> 0, d |-> 0]
Date(y, m, d) == [valid |-> TRUE, y |-> y, m |-> m, d |-> d]

\* A directory entry <prefix><stamp><ext>; the stamp is either eight digits
\* yyyymmdd (digits = TRUE) or a word without digits
FileName(prefix, digits, y, m, d, ext) ==
    [prefix |-> prefix, digits |-> digits, y |-> y, m |-> m, d |-> d, ext |-> ext]

NginxPrefix == "nginx-access-ui.log-"

Log20180730gz  == FileName(NginxPrefix, TRUE, 2018, 7, 30, ".gz")
Log20180730    == FileName(NginxPrefix, TRUE, 2018, 7, 30, "")
Log20180101    == FileName(NginxPrefix, TRUE, 2018, 1, 1, "")
Log20171231gz  == FileName(NginxPrefix, TRUE, 2017, 12, 31, ".gz")
Log20180230gz  == FileName(NginxPrefix, TRUE, 2018, 2, 30, ".gz")
Log20181301    == FileName(NginxPrefix, TRUE, 2018, 13, 1, "")
LogWordgz      == FileName(NginxPrefix, FALSE, 0, 0, 0, ".gz")
Log20180731bz2 == FileName(NginxPrefix, TRUE, 2018, 7, 31, ".bz2")
Other20190101gz == FileName("other.log-", TRUE, 2019, 1, 1, ".gz")

Names == {Log20180730gz, Log20180730, Log20180101, Log20171231gz, Log20180230gz,
          Log20181301, LogWordgz, Log20180731bz2, Other20190101gz}

\* the entries the orchestration's runs are explored with
PipeNames == {Log20180730gz, LogWordgz, Other20190101gz}

IsLeap(y) == (y % 4 = 0 /\ y % 100 # 0) \/ y % 400 = 0

DaysIn(y, m) ==
    IF m = 2 THEN (IF IsLeap(y) THEN 29 ELSE 28)
    ELSE IF m \in {4, 6, 9, 11} THEN 30 ELSE 31

\* datetime.strptime(s, "%Y%m%d") on eight digits: ValueError unless a calendar date
StrptimeOk(y, m, d) == y >= 1 /\ m >= 1 /\ m <= 12 /\ d >= 1 /\ d <= DaysIn(y, m)

\* log_date: the regex wants digits after the last hyphen, then at most one
\* ".suffix"; no match falls through to None, ValueError returns None
log_date(log_file) ==
    IF log_file.digits /\ log_file.ext \in {"", ".gz", ".bz2"}
    THEN IF StrptimeOk(log_file.y, log_file.m, log_file.d)
         THEN Date(log_file.y, log_file.m, log_file.d)
         ELSE NoDate
    ELSE NoDate

\* datetime.__lt__ on two datetimes
DateLess(a, b) ==
    \/ a.y < b.y
    \/ a.y = b.y /\ a.m < b.m
    \/ a.y = b.y /\ a.m = b.m /\ a.d < b.d

\* the pattern of get_latest_logfile:
\* (^nginx-access-ui.log-.*.gz$)|(^nginx-access-ui.log-\d+$)
MatchesPattern(file) ==
    /\ file.prefix = NginxPrefix
    /\ \/ file.ext = ".gz"
       \/ file.ext = "" /\ file.digits

RECURSIVE SelectSeq2(_, _)
SelectSeq2(s, acc) ==
    IF s = <<>> THEN acc
    ELSE SelectSeq2(Tail(s), IF MatchesPattern(Head(s)) THEN Append(acc, Head(s)) ELSE acc)

\* log_files = [file for file in os.listdir(log_dir) if re.search(pattern, file)]
LogFiles(entries) == SelectSeq2(entries, <<>>)

\* LogInfo(path, date); some = FALSE stands for latest = None
NoName == FileName("", FALSE, 0, 0, 0, "")
NoLog == [some |-> FALSE, path |-> NoName, date |-> NoDate]
LogInfo(path, date) == [some |-> TRUE, path |-> path, date |-> date]

\* the value or the exception a call ends with
Return(v) == [raised |-> FALSE, exc |-> "", value |-> v]
Raise(e, v) == [raised |-> TRUE, exc |-> e, value |-> v]

ReplacesLatest_Reversed(latest, date) == DateLess(date, latest.date)

\* if latest.date < date
ReplacesLatest(latest, date) == DateLess(latest.date, date)

\* the for loop of get_latest_logfile; latest.date < date raises TypeError
\* when latest.date is None
RECURSIVE LatestLoop(_, _)
LatestLoop(log_files, latest) ==
    IF log_files = <<>> THEN Return(latest)
    ELSE LET log == Head(log_files)
             date == log_date(log)
             l1 == IF ~latest.some THEN LogInfo(log, date) ELSE latest
         IN  IF date.valid
             THEN IF ~l1.date.valid
                  THEN Raise("TypeError", NoLog)
                  ELSE LatestLoop(Tail(log_files),
                                  IF ReplacesLatest(l1, date) THEN LogInfo(log, date) ELSE l1)
             ELSE LatestLoop(Tail(log_files), l1)

\* get_latest_logfile(log_dir); os.listdir raises FileNotFoundError on a missing directory
get_latest_logfile(exists, entries) ==
    IF ~exists THEN Raise("FileNotFoundError", NoLog)
    ELSE LatestLoop(LogFiles(entries), NoLog)

----------------------------------------------------------------------------
(* Log lines *)

\* A raw line. shape = "access" stands for a line that NGINX_PATTERN matches
\* (the thirteen positional fields are present); url and request_time are
\* the text of the two named groups the scan reads.
Line(shape, url, request_time) == [shape |-> shape, url |-> url, request_time |-> request_time]

EmptyLine == Line("empty", "", "")
LineA0 == Line("access", "/a", "0.000")
LineB3 == Line("access", "/b", "0.300")
LineDash == Line("access", "/a", "-")
LineWord == Line("access", "/b", "abc")

\* the lines a log file is made of
Lines == {EmptyLine, LineA0, LineB3, LineDash, LineWord}

NoMatch == [matched |-> FALSE, url |-> "", request_time |-> ""]

\* parse_line: match.groupdict() if match else None
parse_line(line) ==
    IF line.shape = "access"
    THEN [matched |-> TRUE, url |-> line.url, request_time |-> line.request_time]
    ELSE NoMatch

\* float(s) in milliseconds; ValueError on a text that is no number
float(s) ==
    CASE s = "0.000" -> Return(0)
      [] s = "0.100" -> Return(100)
      [] s = "0.200" -> Return(200)
      [] s = "0.300" -> Return(300)
      [] OTHER -> Raise("ValueError", 0)

----------------------------------------------------------------------------
(* logs_statistics: a dict in insertion order, <<[url, times]>> *)

RECURSIVE HasUrl(_, _)
HasUrl(stats, url) ==
    IF stats = <<>> THEN FALSE
    ELSE Head(stats).url = url \/ HasUrl(Tail(stats), url)

\* logs_statistics[url].append(request_time) on a defaultdict(list)
AppendSample(stats, url, t) ==
    IF HasUrl(stats, url)
    THEN [i \in 1..Len(stats) |->
            IF stats[i].url = url
            THEN [url |-> url, times |-> Append(stats[i].times, t)]
            ELSE stats[i]]
    ELSE Append(stats, [url |-> url, times |-> <<t>>])

RECURSIVE Sum(_)
Sum(s) == IF s = <<>> THEN 0 ELSE Head(s) + Sum(Tail(s))

RECURSIVE Max(_)
Max(s) ==
    IF Len(s) = 1 THEN Head(s)
    ELSE LET m == Max(Tail(s)) IN IF Head(s) >= m THEN Head(s) ELSE m

RECURSIVE InsertAsc(_, _)
InsertAsc(s, x) ==
    IF s = <<>> THEN <<x>>
    ELSE IF Head(s) <= x THEN <<Head(s)>> \o InsertAsc(Tail(s), x) ELSE <<x>> \o s

RECURSIVE Sorted(_, _)
Sorted(s, acc) == IF s = <<>> THEN acc ELSE Sorted(Tail(s), InsertAsc(acc, Head(s)))

\* round(num / den, 0) with ties to even, for num >= 0 and den > 0
Round(num, den) ==
    LET q == num \div den
        r == num % den
    IN  IF 2 * r < den THEN q
        ELSE IF 2 * r > den THEN q + 1
        ELSE IF q % 2 = 0 THEN q ELSE q + 1

\* statistics.median, in half milliseconds (twice the median)
Median2(times) ==
    LET s == Sorted(times, <<>>)
        n == Len(s)
    IN  IF n % 2 = 1 THEN 2 * s[(n + 1) \div 2]
        ELSE s[n \div 2] + s[n \div 2 + 1]

\* the dict built for one url; percentages in thousandths of a percent
ReportRecord(url, times, total_count_, total_time_) ==
    LET count == Len(times)
        time_sum == Sum(times)
    IN  [url |-> url,
         count |-> count,
         count_perc |-> Round(count * 100000, total_count_),
         time_sum |-> time_sum,
         time_max |-> Max(times),
         time_perc |-> Round(time_sum * 100000, total_time_),
         time_avg |-> Round(time_sum, count),
         time_med |-> Round(Median2(times), 2)]

\* one step of report_data.sort(key=time_perc, reverse=True): the sort is
\* stable, a record goes behind the records whose key is not smaller
RECURSIVE InsertDesc(_, _)
InsertDesc(s, r) ==
    IF s = <<>> THEN <<r>>
    ELSE IF Head(s).time_perc >= r.time_perc
         THEN <<Head(s)>> \o InsertDesc(Tail(s), r)
         ELSE <<r>> \o s

RECURSIVE SortDesc(_, _)
SortDesc(s, acc) == IF s = <<>> THEN acc ELSE SortDesc(Tail(s), InsertDesc(acc, Head(s)))

\* report_data[:report_size] for report_size >= 0
Truncate(s, report_size) ==
    SubSeq(s, 1, IF report_size < Len(s) THEN report_size ELSE Len(s))

\* count / one_c_percent and time_sum / one_t_percent divide by 0.0 when the
\* total is 0 and there is a url to build a record for
DividesByZero(stats, total_count_, total_time_) ==
    stats # <<>> /\ (total_count_ = 0 \/ total_time_ = 0)

\* prepare_report_data(logs_statistics, total_count, total_time, report_size)
prepare_report_data(stats, total_count_, total_time_, report_size) ==
    IF DividesByZero(stats, total_count_, total_time_)
    THEN Raise("ZeroDivisionError", <<>>)
    ELSE LET report_data ==
                 [i \in 1..Len(stats) |->
                    ReportRecord(stats[i].url, stats[i].times, total_count_, total_time_)]
         IN  Return(Truncate(SortDesc(report_data, <<>>), report_size))

\* if errors_count >= MAX_ERRORS_LIMIT * total_count. The double 0.2 *
\* total_count rounds to total_count / 5 whenever that is a whole number
\* (the error of 0.2 is below half a unit in the last place), so the
\* comparison with the integer errors_count is the comparison of fractions
GateFails(errors_count_, total_count_) ==
    errors_count_ * MAX_ERRORS_LIMIT_DEN >= MAX_ERRORS_LIMIT_NUM * total_count_

\* analyze, from the end of the for loop on: the gate, then the report data
analyze_tail(stats, total_count_, total_time_, errors_count_, report_size) ==
    IF GateFails(errors_count_, total_count_)
    THEN Raise("Exception", <<>>)
    ELSE prepare_report_data(stats, total_count_, total_time_, report_size)

----------------------------------------------------------------------------
(* The report destination *)

\* get_report_path: os.path.join(report_dir, "report-%Y-%m-%d.html");
\* log.date.strftime raises AttributeError when log.date is None
get_report_path(log, report_dir) ==
    IF ~log.date.valid THEN Raise("AttributeError", <<>>)
    ELSE Return(<<report_dir, "report-", log.date.y, "-", log.date.m, "-", log.date.d, ".html">>)

NoPath == <<>>

is_report_already_exists_Never(fs, path) == FALSE

\* is_report_already_exists: os.path.exists(path)
is_report_already_exists(fs, path) == \E f \in fs : f.path = path

\* render_html_report: open(report_path, "w") replaces the file, the
\* content is the template with json.dumps(data) in it
render_html_report(fs, path, report_data) ==
    {f \in fs : f.path # path} \cup {[path |-> path, content |-> report_data]}

LogfileMissing_Unchecked(log) == FALSE

\* if not logfile
LogfileMissing(log) == ~log.some

----------------------------------------------------------------------------
(* The directories and configurations the runs start from *)

RECURSIVE Listings(_, _)
Listings(names, n) ==
    IF n = 0 THEN {<<>>}
    ELSE LET shorter == Listings(names, n - 1)
         IN  shorter \cup
             {Append(l, x) : l \in {k \in shorter : Len(k) = n - 1},
                             x \in names}

Distinct(l) == \A i, j \in 1..Len(l) : i # j => l[i] # l[j]

\* the listings of a directory of at most n entries, in every order
Dirs(names, n) == {l \in Listings(names, n) : Distinct(l)}

ReportDir == ".reports/tests/test/"

\* a report left at the destination by an earlier day's run
StaleReport ==
    [path |-> get_report_path(LogInfo(Log20180730gz, Date(2018, 7, 30)), ReportDir).value,
     content |-> <<>>]

Idle ==
    /\ logfile = NoLog
    /\ report_path = NoPath
    /\ pos = 0
    /\ total_count = 0
    /\ total_time = 0
    /\ errors_count = 0
    /\ logs_statistics = <<>>
    /\ data = <<>>
    /\ exc = ""
    /\ exitCode = -1
    /\ outcome = "running"
    /\ scans = 0
    /\ writes = 0

Init ==
    /\ logDirExists \in BOOLEAN
    /\ logDir \in (IF logDirExists THEN Dirs(PipeNames, MaxDirEntries) ELSE {<<>>})
    /\ cfg \in [REPORT_SIZE : 0..MaxReportSize, REPORT_DIR : {ReportDir}]
    /\ reportDirExists \in BOOLEAN
    /\ files \in (IF reportDirExists THEN {{}, {StaleReport}} ELSE {{}})
    /\ fileLines = <<>>
    /\ fileComplete = FALSE
    /\ run = "first"
    /\ pc = "start"
    /\ prev = [outcome |-> "none", files |-> files, reportDirExists |-> reportDirExists]
    /\ Idle

\* the invocation ends with exception e: the handler under __main__ exits 1
Fails(e) ==
    /\ pc' = "done"
    /\ exc' = e
    /\ exitCode' = 1
    /\ outcome' = "fail"

\* main returns: the process exits 0
Succeeds(o) ==
    /\ pc' = "done"
    /\ exc' = ""
    /\ exitCode' = 0
    /\ outcome' = o

\* main up to the call of analyze and the opening of the log file:
\* get_latest_logfile, the check of logfile, get_report_path,
\* is_report_already_exists, create_report_dir, file_open
Locate ==
    /\ pc = "start"
    /\ LET r == get_latest_logfile(logDirExists, logDir)
           p == get_report_path(r.value, cfg.REPORT_DIR)
       IN  IF r.raised
           THEN Fails(r.exc) /\ UNCHANGED <<logfile, report_path, reportDirExists, scans>>
           ELSE IF LogfileMissing(r.value)
           THEN Fails("FileNotFoundError")
                /\ UNCHANGED <<logfile, report_path, reportDirExists, scans>>
           ELSE IF p.raised
           THEN Fails(p.exc) /\ logfile' = r.value
                /\ UNCHANGED <<report_path, reportDirExists, scans>>
           ELSE IF is_report_already_exists(files, p.value)
           THEN Succeeds("skip_exists") /\ logfile' = r.value /\ report_path' = p.value
                /\ UNCHANGED <<reportDirExists, scans>>
           ELSE /\ logfile' = r.value
                /\ report_path' = p.value
                /\ reportDirExists' = TRUE
                /\ scans' = scans + 1
                /\ pc' = "scan"
                /\ UNCHANGED <<exc, exitCode, outcome>>
    /\ UNCHANGED <<logDirExists, logDir, cfg, files, fileLines, fileComplete, run, pos,
                   total_count, total_time, errors_count, logs_statistics, data, writes, prev>>

\* the lines the file can yield next: the line already seen at this
\* position, or any line while the end of the file has not been seen
NextLines ==
    IF pos < Len(fileLines) THEN {fileLines[pos + 1]}
    ELSE IF ~fileComplete /\ Len(fileLines) < MaxLines THEN Lines
    ELSE {}

\* one iteration of the for loop of analyze
ScanLine ==
    /\ pc = "scan"
    /\ \E line \in NextLines :
         LET res == parse_line(line)
             request_time == float(res.request_time)
         IN  /\ fileLines' = IF pos < Len(fileLines) THEN fileLines ELSE Append(fileLines, line)
             /\ pos' = pos + 1
             /\ total_count' = total_count + 1
             /\ IF ~res.matched
                THEN /\ errors_count' = errors_count + 1
                     /\ UNCHANGED <<total_time, logs_statistics, pc, exc, exitCode, outcome>>
                ELSE IF request_time.raised
                THEN /\ Fails(request_time.exc)
                     /\ UNCHANGED <<errors_count, total_time, logs_statistics>>
                ELSE /\ total_time' = total_time + request_time.value
                     /\ logs_statistics' = AppendSample(logs_statistics, res.url, request_time.value)
                     /\ UNCHANGED <<errors_count, pc, exc, exitCode, outcome>>
    /\ UNCHANGED <<logDirExists, logDir, cfg, reportDirExists, files, fileComplete, run,
                   logfile, report_path, data, scans, writes, prev>>

\* the end of the file: the rest of analyze (the gate, prepare_report_data)
\* and the rest of main (render_html_report when there is data)
Finish ==
    /\ pc = "scan"
    /\ pos = Len(fileLines)
    /\ fileComplete' = TRUE
    /\ LET r == analyze_tail(logs_statistics, total_count, total_time, errors_count,
                             cfg.REPORT_SIZE)
       IN  IF r.raised
           THEN Fails(r.exc) /\ UNCHANGED <<data, files, writes>>
           ELSE IF r.value # <<>>
           THEN /\ Succeeds("emitted")
                /\ data' = r.value
                /\ files' = render_html_report(files, report_path, r.value)
                /\ writes' = writes + 1
           ELSE /\ Succeeds("skip_empty")
                /\ data' = r.value
                /\ UNCHANGED <<files, writes>>
    /\ UNCHANGED <<logDirExists, logDir, cfg, reportDirExists, fileLines, run, logfile,
                   report_path, pos, total_count, total_time, errors_count,
                   logs_statistics, scans, prev>>

\* the script is started a second time on the same directories
RunAgain ==
    /\ pc = "done"
    /\ run = "first"
    /\ run' = "again"
    /\ pc' = "start"
    /\ prev' = [outcome |-> outcome, files |-> files, reportDirExists |-> reportDirExists]
    /\ logfile' = NoLog
    /\ report_path' = NoPath
    /\ pos' = 0
    /\ total_count' = 0
    /\ total_time' = 0
    /\ errors_count' = 0
    /\ logs_statistics' = <<>>
    /\ data' = <<>>
    /\ exc' = ""
    /\ exitCode' = -1
    /\ outcome' = "running"
    /\ scans' = 0
    /\ writes' = 0
    /\ UNCHANGED <<logDirExists, logDir, cfg, reportDirExists, files, fileLines, fileComplete>>

Next == Locate \/ ScanLine \/ Finish \/ RunAgain

Spec == Init /\ [][Next]_vars

----------------------------------------------------------------------------
(* get_latest_logfile on its own, over the listings of a directory *)

InitLocate ==
    /\ logDirExists \in BOOLEAN
    /\ logDir \in (IF logDirExists THEN Dirs(Names, MaxFiles) ELSE {<<>>})
    /\ cfg = [REPORT_SIZE |-> 0, REPORT_DIR |-> ReportDir]
    /\ reportDirExists = FALSE
    /\ files = {}
    /\ fileLines = <<>>
    /\ fileComplete = FALSE
    /\ run = "first"
    /\ pc = "start"
    /\ prev = [outcome |-> "none", files |-> {}, reportDirExists |-> FALSE]
    /\ Idle

\* logfile = get_latest_logfile(cfg["LOG_DIR"])
LocateCall ==
    /\ pc = "start"
    /\ LET r == get_latest_logfile(logDirExists, logDir)
       IN  /\ logfile' = r.value
           /\ exc' = r.exc
           /\ pc' = "done"
    /\ UNCHANGED <<logDirExists, logDir, cfg, reportDirExists, files, fileLines,
                   fileComplete, run, report_path, pos, total_count, total_time,
                   errors_count, logs_statistics, data, exitCode, outcome, scans,
                   writes, prev>>

SpecLocate == InitLocate /\ [][LocateCall]_vars

----------------------------------------------------------------------------
(* prepare_report_data on its own, over the states a scan can end in *)

Urls == {"/a", "/b", "/c"}
SampleMs == {0, 100, 300}

\* the sample lists of one url: at least one sample
SampleLists(k) == {l \in Listings(SampleMs, k) : l # <<>>}

\* the mappings a scan can build: distinct urls in the order of their first
\* line, each with its samples in the order of the lines
Aggregations(n, k) ==
    UNION {{[i \in 1..Len(u) |-> [url |-> u[i], times |-> f[i]]] :
               f \in [1..Len(u) -> SampleLists(k)]} :
           u \in Dirs(Urls, n)}

RECURSIVE SampleCount(_)
SampleCount(stats) ==
    IF stats = <<>> THEN 0 ELSE Len(Head(stats).times) + SampleCount(Tail(stats))

RECURSIVE SampleSum(_)
SampleSum(stats) ==
    IF stats = <<>> THEN 0 ELSE Sum(Head(stats).times) + SampleSum(Tail(stats))

InitReport ==
    /\ logs_statistics \in Aggregations(MaxUrls, MaxSamples)
    /\ errors_count \in 0..MaxErrors
    /\ total_count = SampleCount(logs_statistics) + errors_count
    /\ total_time = SampleSum(logs_statistics)
    /\ cfg \in [REPORT_SIZE : 0..MaxLimit, REPORT_DIR : {ReportDir}]
    /\ logDirExists = TRUE
    /\ logDir = <<>>
    /\ reportDirExists = FALSE
    /\ files = {}
    /\ fileLines = <<>>
    /\ fileComplete = FALSE
    /\ run = "first"
    /\ pc = "start"
    /\ prev = [outcome |-> "none", files |-> {}, reportDirExists |-> FALSE]
    /\ logfile = NoLog
    /\ report_path = NoPath
    /\ pos = 0
    /\ data = <<>>
    /\ exc = ""
    /\ exitCode = -1
    /\ outcome = "running"
    /\ scans = 0
    /\ writes = 0

\* report_data = prepare_report_data(logs_statistics, total_count, total_time, report_size)
BuildCall ==
    /\ pc = "start"
    /\ LET r == prepare_report_data(logs_statistics, total_count, total_time, cfg.REPORT_SIZE)
       IN  /\ data' = r.value
           /\ exc' = r.exc
           /\ pc' = "done"
    /\ UNCHANGED <<logDirExists, logDir, cfg, reportDirExists, files, fileLines,
                   fileComplete, run, logfile, report_path, pos, total_count, total_time,
                   errors_count, logs_statistics, exitCode, outcome, scans, writes, prev>>

SpecReport == InitReport /\ [][BuildCall]_vars

----------------------------------------------------------------------------
(* Vocabulary of the properties *)

\* the positions of the directory entries that are candidates
Candidates == {i \in 1..Len(logDir) : MatchesPattern(logDir[i])}

DatedCandidates == {i \in Candidates : log_date(logDir[i]).valid}

\* the invocation read its log file to the end
ScanCompleted == pc = "done" /\ scans = 1 /\ fileComplete /\ pos = Len(fileLines)

\* errors / lines >= 0.2
RatioAtLeastFifth == 5 * errors_count >= total_count

\* the report of this invocation is at the destination
ReportWritten ==
    /\ writes = 1
    /\ \E f \in files : f.path = report_path /\ f.content = data

\* the texts float() reads as a duration
NumericTexts == {"0.000", "0.100", "0.200", "0.300"}

\* a line the scan is to count as an error
Unparseable(line) == line.shape # "access" \/ line.request_time \notin NumericTexts

Accounting ==
    /\ total_count = errors_count + SampleCount(logs_statistics)
    /\ total_time = SampleSum(logs_statistics)
    /\ \A i \in 1..Len(logs_statistics) : Len(logs_statistics[i].times) >= 1

\* every url of the mapping before the step is in the mapping after it, with
\* its earlier samples
KeepsUrls ==
    \A i \in 1..Len(logs_statistics) :
        /\ i <= Len(logs_statistics')
        /\ logs_statistics'[i].url = logs_statistics[i].url
        /\ Len(logs_statistics'[i].times) >= Len(logs_statistics[i].times)

\* record i of the mapping, and the order of the ranking: a larger time_perc
\* first, the url met first in the log first among equals
RecordOf(i) ==
    ReportRecord(logs_statistics[i].url, logs_statistics[i].times, total_count, total_time)

RanksBefore(i, j) ==
    \/ RecordOf(i).time_perc > RecordOf(j).time_perc
    \/ RecordOf(i).time_perc = RecordOf(j).time_perc /\ i < j

RankOf(i) == 1 + Cardinality({j \in 1..Len(logs_statistics) : RanksBefore(j, i)})

IsRankedPrefix ==
    /\ Len(data) = (IF cfg.REPORT_SIZE < Len(logs_statistics)
                    THEN cfg.REPORT_SIZE ELSE Len(logs_statistics))
    /\ \A k \in 1..Len(data) :
         \E i \in 1..Len(logs_statistics) : RankOf(i) = k /\ data[k] = RecordOf(i)

----------------------------------------------------------------------------
(* Properties *)

\* C1: after a full scan of a log with at least one line, a ratio of errors
\* to lines of 0.2 or more ends the run in failure (exit status not 0) with
\* no report written; a ratio below 0.2 passes the gate and the run goes on
\* to build and emit the report.
C1_GateThenReport ==
    (ScanCompleted /\ total_count > 0) =>
        IF RatioAtLeastFifth
        THEN /\ outcome = "fail"
             /\ exitCode # 0
             /\ writes = 0
             /\ files = prev.files
        ELSE /\ exc = ""
             /\ exitCode = 0
             /\ (cfg.REPORT_SIZE > 0 => outcome = "emitted" /\ ReportWritten)

\* The decision of the gate alone: the gate exception is raised exactly when
\* the ratio is 0.2 or more, and then nothing is written.
GateDecision ==
    (ScanCompleted /\ total_count > 0) =>
        /\ (exc = "Exception") = RatioAtLeastFifth
        /\ (exc = "Exception" =>
              outcome = "fail" /\ exitCode = 1 /\ writes = 0 /\ files = prev.files)

\* C2: when the first run wrote the report, a second run on the same log
\* directory and destination takes the "report already exists" skip: it
\* opens no log file, writes nothing and leaves the report as it was.
C2_SecondRunSkips ==
    (run = "again" /\ prev.outcome = "emitted") =>
        /\ pc # "scan"
        /\ scans = 0
        /\ writes = 0
        /\ files = prev.files
        /\ (pc = "done" =>
              /\ outcome = "skip_exists"
              /\ exitCode = 0
              /\ \E f \in files : f.path = report_path /\ f.content # <<>>)

C2_Witness ==
    /\ run = "again"
    /\ prev.outcome = "emitted"
    /\ pc = "done"
    /\ outcome = "skip_exists"
    /\ logDir = <<Other20190101gz, Log20180730gz>>

\* C3: when every candidate of the directory carries a valid date,
\* get_latest_logfile returns, for every order of the entries, a candidate
\* whose date is the latest of all candidates; names that do not match the
\* pattern never win, whatever date they carry.
C3_LatestSelected ==
    (pc = "done" /\ logDirExists /\ Candidates # {} /\ DatedCandidates = Candidates) =>
        /\ exc = ""
        /\ logfile.some
        /\ \E i \in Candidates :
             /\ logfile.path = logDir[i]
             /\ logfile.date = log_date(logDir[i])
             /\ \A j \in Candidates : ~DateLess(logfile.date, log_date(logDir[j]))

C3_Witness ==
    /\ pc = "done"
    /\ logDir = <<Other20190101gz, Log20180101, Log20180730gz>>
    /\ logfile.some
    /\ logfile.path = Log20180730gz

\* C4: a log file of zero lines ends the run successfully with nothing to
\* report: no report is written and neither a division fault nor the gate
\* failure is raised.
C4_EmptyFileBenign ==
    (ScanCompleted /\ total_count = 0) =>
        /\ outcome = "skip_empty"
        /\ exitCode = 0
        /\ exc = ""
        /\ writes = 0

\* C5: the processing of a line never raises; an empty line, a line with a
\* non-numeric duration and a line with the duration "-" are counted as
\* errors (total_count and errors_count go up by one, nothing else changes)
\* and the scan goes on.
C5_LinesAbsorbed ==
    [][(pc = "scan" /\ pos' = pos + 1) =>
          /\ pc' = "scan"
          /\ exc' = ""
          /\ (Unparseable(fileLines'[pos']) =>
                /\ total_count' = total_count + 1
                /\ errors_count' = errors_count + 1
                /\ total_time' = total_time
                /\ logs_statistics' = logs_statistics)]_vars

\* C6: when the log directory does not exist or holds no candidate, the run
\* ends with FileNotFoundError and exit status 1, having opened no log
\* file, created no report directory and written no report.
C6_LocateFailureFatal ==
    (~logDirExists \/ Candidates = {}) =>
        /\ pc # "scan"
        /\ scans = 0
        /\ writes = 0
        /\ files = prev.files
        /\ reportDirExists = prev.reportDirExists
        /\ (pc = "done" =>
              outcome = "fail" /\ exc = "FileNotFoundError" /\ exitCode = 1)

C6_Witness ==
    /\ pc = "done"
    /\ logDirExists
    /\ logDir = <<Other20190101gz>>
    /\ ~reportDirExists
    /\ exc = "FileNotFoundError"
    /\ exitCode = 1

\* C7: for every aggregation and every limit >= 0, prepare_report_data
\* returns the first min(limit, number of urls) records of the ranking by
\* descending time_perc, equal time_perc in the order the urls were first met.
C7_RankedAndTruncated ==
    pc = "done" => (exc = "" /\ IsRankedPrefix)

\* The ranking of the calls that return.
RankingWhenReturned ==
    (pc = "done" /\ exc = "") => IsRankedPrefix

\* C8: when the directory holds a dated candidate, get_latest_logfile
\* returns without fault the dated candidate of the latest date, whatever
\* undated candidates there are and whatever the order of the entries; an
\* undated candidate is returned only when there is no dated one.
C8_UndatedNeverOutrank ==
    (pc = "done" /\ logDirExists /\ DatedCandidates # {}) =>
        /\ exc = ""
        /\ logfile.some
        /\ logfile.date.valid
        /\ \A j \in DatedCandidates : ~DateLess(logfile.date, log_date(logDir[j]))

\* The selection among the calls that return.
LatestWhenReturned ==
    (pc = "done" /\ logDirExists /\ DatedCandidates # {} /\ exc = "") =>
        /\ logfile.some
        /\ logfile.date.valid
        /\ \A j \in DatedCandidates : ~DateLess(logfile.date, log_date(logDir[j]))

\* C9: after every line of the scan total_count = errors_count + the number
\* of samples, total_time = the sum of the samples and every url of the
\* mapping has a sample; a line that fails changes total_count and
\* errors_count only; the counters never decrease and no url is removed.
C9_Accounting ==
    [][(run' = run) =>
          /\ Accounting'
          /\ total_count' >= total_count
          /\ errors_count' >= errors_count
          /\ total_time' >= total_time
          /\ KeepsUrls
          /\ ((pc = "scan" /\ pos' = pos + 1 /\ Unparseable(fileLines'[pos'])) =>
                /\ total_time' = total_time
                /\ logs_statistics' = logs_statistics)]_vars

\* The accounting in the states no numeric conversion has aborted.
AccountingWhileScanning ==
    exc # "ValueError" => Accounting

\* C10: when the scan ends and passes the gate with total_time = 0, the run
\* ends successfully with an empty report: nothing is written and no
\* division fault is raised.
C10_ZeroTotalTime ==
    (ScanCompleted /\ exc # "Exception" /\ total_time = 0) =>
        /\ outcome = "skip_empty"
        /\ exitCode = 0
        /\ exc = ""
        /\ writes = 0

====
